---- MODULE Spec2Model ----
(***************************************************************************)
(* Repository analytics pipeline (yearly.py, updated-script.py): the batch *)
(* coordinator main(), the per-repository orchestrator process_repo() and  *)
(* the commit-history walk of get_contributor_metrics().                   *)
(*                                                                         *)
(* Text is a sequence of one-character strings, so that strip(), split()   *)
(* and the f-string that rebuilds "owner/repo" are computed, not assumed.  *)
(* A Python dict is a function with a domain of strings; None-or-value is  *)
(* a set with at most one element.                                         *)
(***************************************************************************)
EXTENDS Integers, Sequences, FiniteSets, TLC

\* ------------------------------------------------------------------ bounds

\* Lines of repos.txt.
MaxLines == 2

\* Commits on one page of the commit history.
MaxNodes == 2

\* Commits in the whole history of the repository a walk reads.
MaxCommits == 3

\* Requests of one organization walk that are followed.
MaxOrgRequests == 11

\* ------------------------------------------------------- program constants

\* ThreadPoolExecutor(max_workers=3) of yearly.py.
yearly_max_workers == 3

\* ThreadPoolExecutor(max_workers=5) of updated-script.py.
updated_max_workers == 5

VARIABLES
    script,     \* which program runs: "yearly" or "updated"
    lines,      \* the lines of the repository list file
    mainpc,     \* main(): "start", "collect", "unwind", "report", "done", "exit1", "crashed"
    repos,      \* main(): the stripped non-blank lines, in submission order
    queue,      \* the executor's work queue: indices of repos not yet started
    fut,        \* one future per submitted entry
    wk,         \* one record of locals per pool thread
    dirs,       \* the working directory: path |-> the tree there, None when absent
    used,       \* the pool threads that have run a call
    results,    \* main(): the results list
    yielded,    \* futures as_completed() has already handed to main()
    report,     \* what the report writer was given, None before
    walkst,     \* get_contributor_metrics: its locals
    requests,   \* get_contributor_metrics: commit-history requests sent so far
    delivered,  \* commits the server has handed out in this walk
    last,       \* how the latest loop iteration ended
    summary,    \* get_contributor_metrics: the returned dict, None before
    wire,       \* get_contributor_metrics: what run_query did so far, what the latest page said
    scan,       \* calculate_loc: the tree, the files not yet visited, its locals
    review,     \* calculate_review_metrics: its argument and its result
    org         \* get_organization_repos_bulk of graphql.py: its locals and its requests

\* The state of a batch run.
batchvars == <<script, lines, mainpc, repos, queue, fut, wk, dirs, used, results, yielded, report>>

\* The state of one get_contributor_metrics call.
walkvars == <<walkst, requests, delivered, last, summary, wire>>

\* The state of one call of calculate_loc, of calculate_review_metrics and of
\* get_organization_repos_bulk.
purevars == <<scan, review, org>>

vars == <<batchvars, walkvars, purevars>>

\* The locals of main().
mainvars == <<mainpc, repos, results, yielded, report>>

\* ------------------------------------------------------------ Python values

None == {}

Some(v) == {v}

TheValue(opt) == CHOOSE v \in opt : TRUE

EmptyDict == [k \in {} |-> 0]

Get(d, k, default) == IF k \in DOMAIN d THEN d[k] ELSE default

Min(a, b) == IF a < b THEN a ELSE b

\* str in a sequence of words: the substring test on messages, word by word.
Contains(msg, word) == \E i \in DOMAIN msg : msg[i] = word

\* ------------------------------------------------------------------- text

IsSpace(c) == c = " "

RECURSIVE LStrip(_)
LStrip(s) == IF s # <<>> /\ IsSpace(Head(s)) THEN LStrip(Tail(s)) ELSE s

RECURSIVE RStrip(_)
RStrip(s) ==
    IF s # <<>> /\ IsSpace(s[Len(s)]) THEN RStrip(SubSeq(s, 1, Len(s) - 1)) ELSE s

\* str.strip()
Strip(s) == RStrip(LStrip(s))

\* str.split('/'): the pieces between the separators, empty pieces kept.
RECURSIVE Split(_)
Split(s) ==
    IF \A i \in DOMAIN s : s[i] # "/"
    THEN <<s>>
    ELSE LET i == CHOOSE j \in DOMAIN s : s[j] = "/" /\ \A k \in 1..(j - 1) : s[k] # "/"
         IN  <<SubSeq(s, 1, i - 1)>> \o Split(SubSeq(s, i + 1, Len(s)))

\* f"{owner}/{repo}"
RepoName(owner, repo) == owner \o <<"/">> \o repo

\* The lines a repository list can hold: well-formed, no separator (and
\* surrounding blanks), two separators, empty owner, empty name, blank.
LineSet ==
    { <<"a", "/", "w">>,
      <<" ", "a", "w", " ">>,
      <<"a", "/", "w", "/", "w">>,
      <<"/", "w">>,
      <<"a", "/">>,
      <<" ">> }

\* ------------------------------------------------------------- exceptions

\* str(e) of the exceptions the stages raise, as words.
MsgClone == <<"Failed", "to", "clone", "repository">>

MsgTransport == <<"HTTPError">>

MsgGraphQL == <<"GraphQL", "query", "failed">>

MsgAttribute == <<"NoneType", "object", "has", "no", "attribute", "get">>

MsgRmtree == <<"OSError", "rmtree">>

\* The outcome of a call: a returned value or a raised exception.
Return(v) == [raised |-> FALSE, msg |-> <<>>, val |-> Some(v)]

Raise(m) == [raised |-> TRUE, msg |-> m, val |-> None]

\* ---------------------------------------------------------------- run_query

\* What the remote graph API can answer to one request.
Transport == [kind |-> "transport", data |-> EmptyDict]

Errors == [kind |-> "errors", data |-> EmptyDict]

Data(d) == [kind |-> "data", data |-> d]

\* run_query: raise on a transport failure (re-raised after the print) and on a
\* body with an errors field, else result.get('data', {}).
run_query(resp) ==
    IF resp.kind = "transport" THEN Raise(MsgTransport)
    ELSE IF resp.kind = "errors" THEN Raise(MsgGraphQL)
    ELSE Return(resp.data)

\* ------------------------------------------------- get_contributor_metrics

\* max_pages=10, the default of get_contributor_metrics.
max_pages == 10

\* all_contributors[:10]
top_contributors == 10

\* timedelta(days=30) and timedelta(days=90)
days_30 == 30

days_90 == 90

\* A commit node of a history page.  login is None when author or author.user
\* is null; age is the whole days between committedDate and now_utc; dateok
\* is whether committedDate is there and fromisoformat() accepts it.
Commit(login, age, year, additions, deletions, dateok) ==
    [login |-> login, age |-> age, year |-> year,
     additions |-> additions, deletions |-> deletions, dateok |-> dateok]

\* The data of a commit-history answer with a resolvable default branch.
HistoryPage(nodes, pageInfo) ==
    [repository |->
        Some([defaultBranchRef |->
            Some([target |-> Some([history |-> [nodes |-> nodes, pageInfo |-> pageInfo]])])])]

\* The locals of get_contributor_metrics before the loop.  contributors is the
\* defaultdict in insertion order.
walk_init ==
    [contributors |-> <<>>, commit_counts_by_year |-> EmptyDict,
     active_30_days |-> {}, active_90_days |-> {},
     cursor |-> None, pages_fetched |-> 0, looping |-> TRUE]

IndexOf(contributors, username) ==
    CHOOSE i \in DOMAIN contributors : contributors[i].username = username

\* contributors[username]['commits'] += 1 and the two sums; the defaultdict
\* creates the entry on first use.
add_commit(contributors, username, commit) ==
    IF \E i \in DOMAIN contributors : contributors[i].username = username
    THEN LET i == IndexOf(contributors, username)
         IN  [contributors EXCEPT
                 ![i].commits = @ + 1,
                 ![i].additions = @ + commit.additions,
                 ![i].deletions = @ + commit.deletions]
    ELSE Append(contributors,
                [username |-> username, commits |-> 1,
                 additions |-> commit.additions, deletions |-> commit.deletions])

\* One commit with the two windows kept apart: a login seen within 30 days
\* is not put into the 90-day set.
process_commit_windows_apart(st, commit) ==
    IF commit.login = None
    THEN [st |-> st, raised |-> FALSE]
    ELSE LET username == TheValue(commit.login)
             counted == [st EXCEPT !.contributors = add_commit(@, username, commit)]
         IN  IF ~commit.dateok
             THEN [st |-> counted, raised |-> TRUE]
             ELSE [st |->
                     [counted EXCEPT
                         !.active_30_days =
                             IF commit.age < days_30 THEN @ \cup {username} ELSE @,
                         !.active_90_days =
                             IF commit.age >= days_30 /\ commit.age < days_90
                             THEN @ \cup {username} ELSE @,
                         !.commit_counts_by_year =
                             [y \in DOMAIN @ \cup {commit.year} |->
                                 Get(@, y, 0) + IF y = commit.year THEN 1 ELSE 0]],
                   raised |-> FALSE]

\* One commit of the for loop: lines 307-322.  A commit whose date does not
\* parse raises after the three sums were updated.
process_commit(st, commit) ==
    IF commit.login = None
    THEN [st |-> st, raised |-> FALSE]
    ELSE LET username == TheValue(commit.login)
             counted == [st EXCEPT !.contributors = add_commit(@, username, commit)]
         IN  IF ~commit.dateok
             THEN [st |-> counted, raised |-> TRUE]
             ELSE [st |->
                     [counted EXCEPT
                         !.active_30_days =
                             IF commit.age < days_30 THEN @ \cup {username} ELSE @,
                         !.active_90_days =
                             IF commit.age < days_90 THEN @ \cup {username} ELSE @,
                         !.commit_counts_by_year =
                             [y \in DOMAIN @ \cup {commit.year} |->
                                 Get(@, y, 0) + IF y = commit.year THEN 1 ELSE 0]],
                   raised |-> FALSE]

\* for commit in history.get('nodes', []): in arrival order, up to the first raise.
RECURSIVE process_commits(_, _)
process_commits(st, nodes) ==
    IF nodes = <<>>
    THEN [st |-> st, raised |-> FALSE]
    ELSE LET one == process_commit(st, Head(nodes))
         IN  IF one.raised THEN one ELSE process_commits(one.st, Tail(nodes))

\* A break that leaves the loop running.
Stop_and_go_on(st) == st

\* break
Stop(st) == [st EXCEPT !.looping = FALSE]

\* An except clause that starts the tables over.
except_break_discarding(st) ==
    Stop([st EXCEPT !.contributors = <<>>, !.commit_counts_by_year = EmptyDict,
                    !.active_30_days = {}, !.active_90_days = {}])

\* The except clause, lines 334-336: print and break, the tables as they are.
except_break(st) == Stop(st)

\* The loop condition with <= for <.
loop_condition_inclusive(st) == st.pages_fetched <= max_pages

\* while pages_fetched < max_pages
loop_condition(st) == st.pages_fetched < max_pages

\* Whether the loop goes into another iteration.
in_loop(st) == st.looping /\ loop_condition(st)

\* One iteration of the while loop, lines 291-336, on the answer to its request.
loop_iteration(st, resp) ==
    LET r == run_query(resp)
    IN  IF r.raised THEN except_break(st)
        ELSE LET data == TheValue(r.val)
             IN  IF "repository" \notin DOMAIN data \/ data.repository = None
                 THEN Stop(st)
                 ELSE LET repo_data == TheValue(data.repository)
                      IN  IF repo_data.defaultBranchRef = None
                             \/ TheValue(repo_data.defaultBranchRef).target = None
                          THEN Stop(st)
                          ELSE LET history ==
                                       TheValue(TheValue(repo_data.defaultBranchRef).target).history
                                   done == process_commits(st, Get(history, "nodes", <<>>))
                                   page_info == Get(history, "pageInfo", EmptyDict)
                               IN  IF done.raised THEN except_break(done.st)
                                   ELSE IF ~Get(page_info, "hasNextPage", FALSE)
                                   THEN Stop(done.st)
                                   ELSE [done.st EXCEPT
                                            !.cursor = Get(page_info, "endCursor", None),
                                            !.pages_fetched = @ + 1]

\* A sort that puts an entry before the earlier entries of the same count.
RECURSIVE insert_sorted_before_equals(_, _)
insert_sorted_before_equals(sorted, e) ==
    IF sorted = <<>> THEN <<e>>
    ELSE IF Head(sorted).commits > e.commits
         THEN <<Head(sorted)>> \o insert_sorted_before_equals(Tail(sorted), e)
         ELSE <<e>> \o sorted

\* sorted(..., key=commits, reverse=True): stable, so equal counts keep their
\* insertion order.
RECURSIVE insert_sorted(_, _)
insert_sorted(sorted, e) ==
    IF sorted = <<>> THEN <<e>>
    ELSE IF Head(sorted).commits >= e.commits
         THEN <<Head(sorted)>> \o insert_sorted(Tail(sorted), e)
         ELSE <<e>> \o sorted

RECURSIVE sorted_contributors(_)
sorted_contributors(contributors) ==
    IF contributors = <<>> THEN <<>>
    ELSE insert_sorted(
             sorted_contributors(SubSeq(contributors, 1, Len(contributors) - 1)),
             contributors[Len(contributors)])

\* The returned summary, lines 338-357.
contributor_summary(st) ==
    LET all_contributors ==
            [i \in DOMAIN st.contributors |->
                LET e == sorted_contributors(st.contributors)[i]
                IN  [username |-> e.username, commit_count |-> e.commits,
                     additions |-> e.additions, deletions |-> e.deletions]]
    IN  [total_contributors |-> Len(st.contributors),
         active_30_days |-> Cardinality(st.active_30_days),
         active_90_days |-> Cardinality(st.active_90_days),
         contributors |->
             SubSeq(all_contributors, 1, Min(top_contributors, Len(all_contributors))),
         yearly_commits |-> st.commit_counts_by_year]

\* get_contributor_metrics against a server that answers the successive
\* requests with the successive elements of answers.
RECURSIVE walk(_, _)
walk(st, answers) ==
    IF ~in_loop(st) \/ answers = <<>> THEN st
    ELSE walk(loop_iteration(st, Head(answers)), Tail(answers))

\* ------------------------------------------------ get_pull_request_metrics

\* round(numerator / denominator, 2) in hundredths; an exact tie goes to the
\* even hundredth.
Round2(numerator, denominator) ==
    LET q == (100 * numerator) \div denominator
        r == (100 * numerator) % denominator
    IN  IF 2 * r < denominator THEN q
        ELSE IF 2 * r > denominator THEN q + 1
        ELSE IF q % 2 = 0 THEN q ELSE q + 1

RECURSIVE CountIf(_, _)
CountIf(seq, v) ==
    IF seq = <<>> THEN 0
    ELSE (IF Head(seq) = v THEN 1 ELSE 0) + CountIf(Tail(seq), v)

\* The for loop with total_reviews += 1 in place of += totalCount.
RECURSIVE review_totals_counting_prs(_)
review_totals_counting_prs(recent_prs) ==
    IF recent_prs = <<>>
    THEN [reviewed_pr_count |-> 0, total_reviews |-> 0,
          total_approvals |-> 0, total_change_requests |-> 0]
    ELSE LET pr == Head(recent_prs)
             rest == review_totals_counting_prs(Tail(recent_prs))
         IN  IF pr.totalCount > 0
             THEN [reviewed_pr_count |-> rest.reviewed_pr_count + 1,
                   total_reviews |-> rest.total_reviews + 1,
                   total_approvals |->
                       rest.total_approvals + CountIf(pr.nodes, "APPROVED"),
                   total_change_requests |->
                       rest.total_change_requests + CountIf(pr.nodes, "CHANGES_REQUESTED")]
             ELSE rest

\* The for loop of calculate_review_metrics, lines 214-223, over the sample:
\* each PR is [totalCount, nodes], nodes the review states returned.
RECURSIVE review_totals(_)
review_totals(recent_prs) ==
    IF recent_prs = <<>>
    THEN [reviewed_pr_count |-> 0, total_reviews |-> 0,
          total_approvals |-> 0, total_change_requests |-> 0]
    ELSE LET pr == Head(recent_prs)
             rest == review_totals(Tail(recent_prs))
         IN  IF pr.totalCount > 0
             THEN [reviewed_pr_count |-> rest.reviewed_pr_count + 1,
                   total_reviews |-> rest.total_reviews + pr.totalCount,
                   total_approvals |->
                       rest.total_approvals + CountIf(pr.nodes, "APPROVED"),
                   total_change_requests |->
                       rest.total_change_requests + CountIf(pr.nodes, "CHANGES_REQUESTED")]
             ELSE rest

MsgZeroDivision == <<"division", "by", "zero">>

\* numerator / denominator, rounded as the return statement rounds it;
\* ZeroDivisionError on a zero denominator.
true_divide(numerator, denominator) ==
    IF denominator = 0 THEN Raise(MsgZeroDivision)
    ELSE Return(Round2(numerator, denominator))

\* The quotient without its conditional.
ratio_unguarded(numerator, denominator) == true_divide(numerator, denominator)

\* (numerator / denominator) if denominator > 0 else 0
ratio(numerator, denominator) ==
    IF denominator > 0 THEN true_divide(numerator, denominator) ELSE Return(0)

\* calculate_review_metrics: the three rates, in hundredths.
calculate_review_metrics(repo_data) ==
    LET t == review_totals(repo_data.recentPRsForReviews)
        reviews_per_pr == ratio(t.total_reviews, t.reviewed_pr_count)
        approval_rate == ratio(t.total_approvals, t.total_reviews)
        change_requests_rate == ratio(t.total_change_requests, t.total_reviews)
    IN  IF reviews_per_pr.raised THEN reviews_per_pr
        ELSE IF approval_rate.raised THEN approval_rate
        ELSE IF change_requests_rate.raised THEN change_requests_rate
        ELSE Return([reviews_per_pr |-> TheValue(reviews_per_pr.val),
                     approval_rate |-> TheValue(approval_rate.val),
                     change_requests_rate |-> TheValue(change_requests_rate.val)])

\* get_pull_request_metrics on the answer to its one request.
get_pull_request_metrics(resp) ==
    LET r == run_query(resp)
    IN  IF r.raised THEN r
        ELSE LET data == TheValue(r.val)
             IN  IF "repository" \notin DOMAIN data
                 THEN Return(EmptyDict)
                 ELSE LET repo_data == data.repository
                          called == calculate_review_metrics(repo_data)
                          review_metrics == TheValue(called.val)
                      IN  IF called.raised THEN called
                          ELSE Return([total |-> repo_data.totalPRs,
                                       open |-> repo_data.openPRs,
                                       closed |-> repo_data.closedPRs,
                                       merged |-> repo_data.mergedPRs,
                                       draft |-> CountIf(repo_data.draftPRs, TRUE),
                                       reviews_per_pr |-> review_metrics.reviews_per_pr,
                                       approval_rate |-> review_metrics.approval_rate,
                                       change_requests_rate |->
                                           review_metrics.change_requests_rate])

\* ----------------------------------------------------------- get_repo_stats

\* get_repo_stats on the answer to its one request: data.get("repository", {}).
get_repo_stats(resp) ==
    LET r == run_query(resp)
    IN  IF r.raised THEN r ELSE Return(Get(TheValue(r.val), "repository", EmptyDict))

\* repo_stats.get(alias, {}).get("target", {}).get("history", {}).get("totalCount", 0):
\* a default only stands in for an absent key; a null raises AttributeError.
history_count(repo_stats, alias) ==
    LET ref == Get(repo_stats, alias, Some(EmptyDict))
    IN  IF ref = None THEN Raise(MsgAttribute)
        ELSE LET target == Get(TheValue(ref), "target", Some(EmptyDict))
             IN  IF target = None THEN Raise(MsgAttribute)
                 ELSE Return(Get(Get(TheValue(target), "history", EmptyDict), "totalCount", 0))

\* ------------------------------------------------------------ calculate_loc

\* str.lower() on the capitals the sample paths use.
LowerChar(c) ==
    CASE c = "M" -> "m"
      [] c = "D" -> "d"
      [] c = "P" -> "p"
      [] c = "Y" -> "y"
      [] OTHER -> c

Lower(s) == [i \in DOMAIN s |-> LowerChar(s[i])]

\* pattern in file_str
IsSubstring(pattern, s) ==
    \E i \in 0..(Len(s) - Len(pattern)) : SubSeq(s, i + 1, i + Len(pattern)) = pattern

\* Path.name: what follows the last separator.
RECURSIVE PathName(_)
PathName(path) ==
    IF \A i \in DOMAIN path : path[i] # "/" THEN path
    ELSE PathName(Tail(path))

\* Path.suffix: from the last dot of the name, unless that dot opens or ends
\* the name.
PathSuffix(path) ==
    LET name == PathName(path)
        dots == {i \in DOMAIN name : name[i] = "."}
    IN  IF dots = {} THEN <<>>
        ELSE LET dot == CHOOSE i \in dots : \A j \in dots : j <= i
             IN  IF dot = 1 \/ dot = Len(name) THEN <<>>
                 ELSE SubSeq(name, dot, Len(name))

skip_patterns(s) ==
    IF s = "yearly"
    THEN { <<".", "g", "i", "t", "/">>,
           <<"_", "_", "p", "y", "c", "a", "c", "h", "e", "_", "_">>,
           <<"n", "o", "d", "e", "_", "m", "o", "d", "u", "l", "e", "s">>,
           <<".", "v", "e", "n", "v">>,
           <<"d", "i", "s", "t">>,
           <<"b", "u", "i", "l", "d">> }
    ELSE { <<".", "g", "i", "t">>,
           <<"_", "_", "p", "y", "c", "a", "c", "h", "e", "_", "_">>,
           <<"n", "o", "d", "e", "_", "m", "o", "d", "u", "l", "e", "s">>,
           <<".", "v", "e", "n", "v">>,
           <<"d", "i", "s", "t">>,
           <<"b", "u", "i", "l", "d">> }

\* The extensions of code_extensions that the sample paths can carry.
code_extensions ==
    { <<".", "p", "y">>, <<".", "j", "s">>, <<".", "t", "s">>, <<".", "c">>,
      <<".", "h">>, <<".", "g", "o">>, <<".", "r", "s">>, <<".", "s", "h">>,
      <<".", "m", "d">>, <<".", "t", "x", "t">>, <<".", "j", "s", "o", "n">>,
      <<".", "y", "m", "l">> }

code_names ==
    { <<"m", "a", "k", "e", "f", "i", "l", "e">>,
      <<"d", "o", "c", "k", "e", "r", "f", "i", "l", "e">> }

\* is_code_file on the path string the walk hands it (the workspace directory
\* and the path below it).
is_code_file(s, file_str) ==
    IF \E pattern \in skip_patterns(s) : IsSubstring(pattern, file_str)
    THEN FALSE
    ELSE Lower(PathSuffix(file_str)) \in code_extensions
         \/ Lower(PathName(file_str)) \in code_names

\* A byte that is no valid UTF-8, as one character of a line.
Undecodable == "0xff"

\* open(..., encoding='utf-8', errors='ignore'): the bytes that do not decode
\* are dropped from the line.
decode_ignore(line) == SelectSeq(line, LAMBDA c : c # Undecodable)

\* count_lines_in_file: the lines whose stripped text is not empty; 0 when
\* the file cannot be opened or read.
RECURSIVE CountNonBlank(_)
CountNonBlank(text) ==
    IF text = <<>> THEN 0
    ELSE (IF Strip(decode_ignore(Head(text))) # <<>> THEN 1 ELSE 0)
             + CountNonBlank(Tail(text))

count_lines_in_file(file) == IF file.readable THEN CountNonBlank(file.text) ELSE 0

\* A workspace path that leaves the thread identity out.
TempDir_shared(w) == <<"t", "e", "m", "p", "_", "r", "e", "p", "o">>

\* f"temp_repo_{thread_id}", the thread identity written as one character.
TempDir(w) ==
    <<"t", "e", "m", "p", "_", "r", "e", "p", "o", "_">> \o <<ToString(w)>>

\* The paths the pool threads of a run can form.
TempDirs == {TempDir(w) : w \in 1..updated_max_workers}

\* The locals of calculate_loc before its loop.
loc_init == [total_lines |-> 0, file_count |-> 0, file_stats |-> EmptyDict]

\* The loop body without its test lines > 0.
loc_file_recording_zero(s, repo_path, acc, file) ==
    LET lines_ == IF is_code_file(s, repo_path \o <<"/">> \o file.relative_path)
                  THEN count_lines_in_file(file) ELSE 0
    IN  [total_lines |-> acc.total_lines + lines_,
         file_count |-> acc.file_count + 1,
         file_stats |->
             [p \in DOMAIN acc.file_stats \cup {file.relative_path} |->
                 IF p = file.relative_path THEN lines_ ELSE acc.file_stats[p]]]

\* The loop body with total_lines = lines in place of total_lines += lines.
loc_file_overwriting_total(s, repo_path, acc, file) ==
    LET lines_ == IF is_code_file(s, repo_path \o <<"/">> \o file.relative_path)
                  THEN count_lines_in_file(file) ELSE 0
    IN  IF lines_ > 0
        THEN [total_lines |-> lines_,
              file_count |-> acc.file_count + 1,
              file_stats |->
                  [p \in DOMAIN acc.file_stats \cup {file.relative_path} |->
                      IF p = file.relative_path THEN lines_ ELSE acc.file_stats[p]]]
        ELSE acc

\* The body of the loop of calculate_loc for one regular file
\* [relative_path, text, readable] below repo_path.
loc_file(s, repo_path, acc, file) ==
    LET lines_ == IF is_code_file(s, repo_path \o <<"/">> \o file.relative_path)
                  THEN count_lines_in_file(file) ELSE 0
    IN  IF lines_ > 0
        THEN [total_lines |-> acc.total_lines + lines_,
              file_count |-> acc.file_count + 1,
              file_stats |->
                  [p \in DOMAIN acc.file_stats \cup {file.relative_path} |->
                      IF p = file.relative_path THEN lines_ ELSE acc.file_stats[p]]]
        ELSE acc

\* The loop of calculate_loc over the files rglob has still to deliver, in
\* one order of delivery.
RECURSIVE loc_loop(_, _, _, _)
loc_loop(s, repo_path, acc, files) ==
    IF files = {} THEN acc
    ELSE LET file == CHOOSE f \in files : TRUE
         IN  loc_loop(s, repo_path, loc_file(s, repo_path, acc, file), files \ {file})

\* calculate_loc over the regular files below repo_path.
calculate_loc(s, repo_path, files) == loc_loop(s, repo_path, loc_init, files)

\* --------------------------------------------------------- the environment

\* A repository with an empty owner or name does not exist on the platform:
\* the graph API answers with errors (or not at all), the REST API with a
\* failure status, and git clone exits non-zero.
CanExist(owner, repo) == owner # <<>> /\ repo # <<>>

PrSample ==
    [totalPRs |-> 3, openPRs |-> 1, closedPRs |-> 1, mergedPRs |-> 1,
     draftPRs |-> <<TRUE, FALSE>>,
     recentPRsForReviews |->
         << [totalCount |-> 2, nodes |-> <<"APPROVED", "COMMENTED">>],
            [totalCount |-> 0, nodes |-> <<>>] >>]

\* The answers to the PR-metrics request.
PrAnswers(owner, repo) ==
    IF CanExist(owner, repo)
    THEN {Transport, Errors, Data([repository |-> PrSample])}
    ELSE {Transport, Errors}

Branch(total) == Some([target |-> Some([history |-> [totalCount |-> total]])])

\* The answers to the repository-summary request: a failed request, no
\* default branch (both aliases null), a default branch with commits.
StatsAnswers(owner, repo) ==
    IF CanExist(owner, repo)
    THEN {Transport, Errors,
          Data([repository |-> [totalCommits |-> None, yearlyCommits |-> None]]),
          Data([repository |-> [totalCommits |-> Branch(7), yearlyCommits |-> Branch(2)]])}
    ELSE {Transport, Errors}

\* The server the commit-history walk of a batch run meets: it delivers a
\* last page of two commits.  SpecWalk runs the walk against every server.
ContribAnswers(owner, repo) ==
    IF CanExist(owner, repo)
    THEN { << Data(HistoryPage(
                  << Commit(Some("u1"), 1, 2026, 5, 1, TRUE),
                     Commit(Some("u2"), 400, 2025, 2, 2, TRUE) >>,
                  [hasNextPage |-> FALSE])) >> }
    ELSE { <<Errors>> }

\* What a successful REST request returns (response.json()).
InfoSample ==
    [stargazers_count |-> 4, forks_count |-> 1,
     language |-> "Python", description |-> "widgets"]

\* The tree a successful clone materializes: main.py with 12 non-blank lines
\* and a blank one, and an empty __init__.py.
Workspaces ==
    { { [relative_path |-> <<"m", "a", "i", "n", ".", "p", "y">>,
         text |-> [i \in 1..13 |-> IF i = 7 THEN <<" ">> ELSE <<"x">>],
         readable |-> TRUE],
        [relative_path |-> <<"_", "_", "i", "n", "i", "t", "_", "_", ".", "p", "y">>,
         text |-> <<>>,
         readable |-> TRUE] } }

\* What a failed or killed clone leaves when it leaves the directory.
PartialClone == {}

\* How the external clone ends: subprocess.run returns, raises
\* CalledProcessError, or (with timeout=300) raises TimeoutExpired.
CloneOutcomes(s, owner, repo) ==
    (IF CanExist(owner, repo) THEN {"ok"} ELSE {})
        \cup {"nonzero"}
        \cup (IF s = "yearly" THEN {"timeout"} ELSE {})

\* Whether shutil.rmtree goes through; it is only called on a directory that
\* exists.
RmtreeOutcomes(exists) == IF exists THEN BOOLEAN ELSE {TRUE}

\* ------------------------------------------------------------ process_repo

max_workers(s) == IF s = "yearly" THEN yearly_max_workers ELSE updated_max_workers

\* The threads the executor has created once every entry is submitted.
Threads == 1..Min(Len(repos), max_workers(script))

\* The locals of a pool thread that runs no process_repo call; cloned records
\* how the external clone of the call ended ("no" before it ran).
IdleLocals ==
    [pc |-> "idle", task |-> 0, owner |-> <<>>, repo |-> <<>>,
     pr_metrics |-> EmptyDict, contributor_metrics |-> EmptyDict,
     repo_stats |-> EmptyDict, repo_info |-> None, ret |-> None, cloned |-> "no"]

PendingFuture == [state |-> "pending", result |-> None]

\* An error record padded with zeroed counts.
error_record_padded(owner, repo, msg) ==
    [repository |-> RepoName(owner, repo), error |-> msg,
     total_files |-> 0, total_lines |-> 0]

\* {"repository": f"{owner}/{repo}", "error": ...}
error_record(owner, repo, msg) == [repository |-> RepoName(owner, repo), error |-> msg]

\* A pool thread that takes work while its call is still running.
MayTake_while_running(w) ==
    /\ w \in Threads
    /\ w \in used \/ \A v \in Threads \ used : w <= v

\* Pool threads that never ran a call are interchangeable: the least of them
\* stands for all.  A thread takes work only when it runs no call.
MayTake(w) ==
    /\ w \in Threads
    /\ wk[w].pc = "idle"
    /\ w \in used \/ \A v \in Threads \ used : w <= v

\* The future of the call that thread w runs gets its outcome and w goes idle.
Finish(w, state, result) ==
    /\ fut' = [fut EXCEPT ![wk[w].task] = [state |-> state, result |-> result]]
    /\ wk' = [wk EXCEPT ![w] = IdleLocals]

\* The except clause of process_repo: the error record becomes the return
\* value and the finally clause is next.
Except(w, msg) ==
    wk' = [wk EXCEPT ![w].ret = Some(error_record(wk[w].owner, wk[w].repo, msg)),
                     ![w].pc = "finally"]

\* Whether split('/') unpacks into owner, repo.
unpacks(parts) == Len(parts) = 2

\* A pool thread takes the next work item and runs process_repo up to its
\* first remote call: strip, the blank test, the split, the temp directory.
process_repo_begin(w) ==
    /\ mainpc \in {"collect", "unwind"}
    /\ queue # <<>>
    /\ MayTake(w)
    /\ LET i == Head(queue)
           repo_line == Strip(repos[i])
           parts == Split(repo_line)
       IN  /\ queue' = Tail(queue)
           /\ IF repo_line = <<>> \/ ~unpacks(parts)
              THEN /\ fut' = [fut EXCEPT ![i] = [state |-> "done", result |-> None]]
                   /\ wk' = wk
              ELSE /\ fut' = [fut EXCEPT ![i].state = "running"]
                   /\ wk' = [wk EXCEPT ![w] =
                                [IdleLocals EXCEPT
                                    !.pc = IF script = "yearly" THEN "pr" ELSE "info",
                                    !.task = i, !.owner = parts[1], !.repo = parts[2]]]
    /\ used' = used \cup {w}
    /\ UNCHANGED <<walkvars, purevars, script, lines, mainvars, dirs>>

\* The try block with the clone moved in front of the contributor and
\* summary fetches.
after_stage_clone_early(stage) ==
    CASE stage = "pr" -> "clone"
      [] stage = "clone" -> "contrib"
      [] stage = "contrib" -> "stats"
      [] stage = "stats" -> "scan"
      [] stage = "info" -> "clone"
      [] stage = "scan" -> "finally"

\* The statement of the try block that follows a stage that has returned:
\* lines 401-440 of yearly.py, lines 101-131 of updated-script.py.
after_stage(stage) ==
    CASE stage = "pr" -> "contrib"
      [] stage = "contrib" -> "stats"
      [] stage = "stats" -> "clone"
      [] stage = "info" -> "clone"
      [] stage = "clone" -> "scan"
      [] stage = "scan" -> "finally"

\* pr_metrics = get_pull_request_metrics(owner, repo)
fetch_pr_metrics(w) ==
    /\ w \in Threads
    /\ wk[w].pc = "pr"
    /\ \E resp \in PrAnswers(wk[w].owner, wk[w].repo) :
           LET r == get_pull_request_metrics(resp)
           IN  IF r.raised
               THEN Except(w, r.msg)
               ELSE wk' = [wk EXCEPT ![w].pr_metrics = TheValue(r.val),
                                     ![w].pc = after_stage("pr")]
    /\ UNCHANGED <<walkvars, purevars, script, lines, mainvars, queue, fut, dirs, used>>

\* contributor_metrics = get_contributor_metrics(owner, repo)
fetch_contributor_metrics(w) ==
    /\ w \in Threads
    /\ wk[w].pc = "contrib"
    /\ \E answers \in ContribAnswers(wk[w].owner, wk[w].repo) :
           wk' = [wk EXCEPT
                     ![w].contributor_metrics =
                         contributor_summary(walk(walk_init, answers)),
                     ![w].pc = after_stage("contrib")]
    /\ UNCHANGED <<walkvars, purevars, script, lines, mainvars, queue, fut, dirs, used>>

\* repo_stats = get_repo_stats(owner, repo)
fetch_repo_stats(w) ==
    /\ w \in Threads
    /\ wk[w].pc = "stats"
    /\ \E resp \in StatsAnswers(wk[w].owner, wk[w].repo) :
           LET r == get_repo_stats(resp)
           IN  IF r.raised
               THEN Except(w, r.msg)
               ELSE wk' = [wk EXCEPT ![w].repo_stats = TheValue(r.val),
                                     ![w].pc = after_stage("stats")]
    /\ UNCHANGED <<walkvars, purevars, script, lines, mainvars, queue, fut, dirs, used>>

\* repo_info = get_repo_info(owner, repo, token) of updated-script.py: the
\* RequestException is caught there and None returned.
fetch_repo_info(w) ==
    /\ w \in Threads
    /\ wk[w].pc = "info"
    /\ \E ok \in {FALSE} \cup {CanExist(wk[w].owner, wk[w].repo)} :
           wk' = [wk EXCEPT ![w].repo_info = IF ok THEN Some(InfoSample) ELSE None,
                            ![w].pc = after_stage("info")]
    /\ UNCHANGED <<walkvars, purevars, script, lines, mainvars, queue, fut, dirs, used>>

\* clone_repo without the except clauses' return None: the path comes back
\* whatever the exit of git clone.
clone_repo_always_path(s, exists, rm_ok, outcome) ==
    IF exists /\ ~rm_ok THEN Raise(MsgRmtree) ELSE Return(Some("temp_dir"))

\* clone_repo: remove what is at temp_dir, run git clone, return temp_dir or
\* None.  The rmtree stands outside the try, so its failure leaves clone_repo
\* as an exception.
clone_repo(s, exists, rm_ok, outcome) ==
    IF exists /\ ~rm_ok THEN Raise(MsgRmtree)
    ELSE IF outcome = "ok" THEN Return(Some("temp_dir"))
    ELSE Return(None)

\* repo_path = clone_repo(...) and the test that follows it, lines 411-416.
clone_repository(w) ==
    /\ w \in Threads
    /\ wk[w].pc = "clone"
    /\ \E rm_ok \in RmtreeOutcomes(dirs[TempDir(w)] # None),
          outcome \in CloneOutcomes(script, wk[w].owner, wk[w].repo),
          ws \in Workspaces :
       \E partial \in IF outcome = "ok" THEN {FALSE} ELSE BOOLEAN :
           LET r == clone_repo(script, dirs[TempDir(w)] # None, rm_ok, outcome)
           IN  IF r.raised
               THEN /\ dirs' = dirs
                    /\ Except(w, r.msg)
               ELSE /\ dirs' = [dirs EXCEPT ![TempDir(w)] =
                                   IF outcome = "ok" THEN Some(ws)
                                   ELSE IF partial THEN Some(PartialClone) ELSE None]
                    /\ IF TheValue(r.val) = None
                       THEN wk' = [wk EXCEPT
                                      ![w].ret = Some(error_record(wk[w].owner,
                                                                   wk[w].repo, MsgClone)),
                                      ![w].pc = "finally",
                                      ![w].cloned = outcome]
                       ELSE wk' = [wk EXCEPT ![w].pc = after_stage("clone"),
                                                 ![w].cloned = outcome]
    /\ UNCHANGED <<walkvars, purevars, script, lines, mainvars, queue, fut, used>>

\* The result dict of yearly.py, lines 420-437; the two commit counts raise
\* when a default-branch alias or its target is null.
yearly_result(l, loc) ==
    LET total == history_count(l.repo_stats, "totalCommits")
        yearly == history_count(l.repo_stats, "yearlyCommits")
    IN  IF total.raised THEN total
        ELSE IF yearly.raised THEN yearly
        ELSE Return(
            [repository |-> RepoName(l.owner, l.repo),
             total_files |-> loc.file_count,
             total_lines |-> loc.total_lines,
             total_commits |-> TheValue(total.val),
             yearly_commits |-> TheValue(yearly.val),
             total_contributors |-> Get(l.contributor_metrics, "total_contributors", 0),
             active_30_days |-> Get(l.contributor_metrics, "active_30_days", 0),
             active_90_days |-> Get(l.contributor_metrics, "active_90_days", 0),
             pr_total |-> Get(l.pr_metrics, "total", 0),
             pr_open |-> Get(l.pr_metrics, "open", 0),
             pr_closed |-> Get(l.pr_metrics, "closed", 0),
             pr_merged |-> Get(l.pr_metrics, "merged", 0),
             pr_draft |-> Get(l.pr_metrics, "draft", 0),
             reviews_per_pr |-> Get(l.pr_metrics, "reviews_per_pr", 0),
             approval_rate |-> Get(l.pr_metrics, "approval_rate", 0),
             change_requests_rate |-> Get(l.pr_metrics, "change_requests_rate", 0)])

\* The result dict of updated-script.py, lines 115-129.
updated_result(l, loc) ==
    IF l.repo_info # None
    THEN Return(
            [repository |-> RepoName(l.owner, l.repo),
             total_files |-> loc.file_count,
             total_lines |-> loc.total_lines,
             files |-> loc.file_stats,
             repo_info |->
                 [stars |-> Get(TheValue(l.repo_info), "stargazers_count", 0),
                  forks |-> Get(TheValue(l.repo_info), "forks_count", 0),
                  language |-> TheValue(l.repo_info).language,
                  description |-> TheValue(l.repo_info).description]])
    ELSE Return(
            [repository |-> RepoName(l.owner, l.repo),
             total_files |-> loc.file_count,
             total_lines |-> loc.total_lines,
             files |-> loc.file_stats])

\* calculate_loc(repo_path) and the result dict.
scan_and_merge(w) ==
    /\ w \in Threads
    /\ wk[w].pc = "scan"
    /\ LET files == IF dirs[TempDir(w)] = None THEN {} ELSE TheValue(dirs[TempDir(w)])
           loc == calculate_loc(script, TempDir(w), files)
           r == IF script = "yearly" THEN yearly_result(wk[w], loc)
                ELSE updated_result(wk[w], loc)
       IN  IF r.raised
           THEN Except(w, r.msg)
           ELSE wk' = [wk EXCEPT ![w].ret = r.val, ![w].pc = after_stage("scan")]
    /\ UNCHANGED <<walkvars, purevars, script, lines, mainvars, queue, fut, dirs, used>>

\* The finally clause: yearly.py catches and prints a failed rmtree,
\* updated-script.py lets it out.
cleanup(s, exists, rm_ok) ==
    IF ~exists THEN [exists |-> FALSE, raised |-> FALSE]
    ELSE IF rm_ok THEN [exists |-> FALSE, raised |-> FALSE]
    ELSE IF s = "yearly" THEN [exists |-> TRUE, raised |-> FALSE]
    ELSE [exists |-> TRUE, raised |-> TRUE]

\* The finally clause runs and process_repo returns or raises.
process_repo_finally(w) ==
    /\ w \in Threads
    /\ wk[w].pc = "finally"
    /\ \E rm_ok \in RmtreeOutcomes(dirs[TempDir(w)] # None) :
           LET c == cleanup(script, dirs[TempDir(w)] # None, rm_ok)
           IN  /\ dirs' = [dirs EXCEPT ![TempDir(w)] = IF c.exists THEN @ ELSE None]
               /\ IF c.raised
                  THEN Finish(w, "raised", None)
                  ELSE Finish(w, "done", wk[w].ret)
    /\ UNCHANGED <<walkvars, purevars, script, lines, mainvars, queue, used>>

\* ---------------------------------------------------------------------- main

RECURSIVE NonBlank(_)
NonBlank(ls) ==
    IF ls = <<>> THEN <<>>
    ELSE (IF Strip(Head(ls)) # <<>> THEN <<Strip(Head(ls))>> ELSE <<>>) \o NonBlank(Tail(ls))

\* Lines 462-476: read the list, leave when it is empty, submit every entry.
main_submit ==
    /\ mainpc = "start"
    /\ repos' = NonBlank(lines)
    /\ IF repos' = <<>>
       THEN /\ mainpc' = "exit1"
            /\ UNCHANGED <<fut, queue>>
       ELSE /\ mainpc' = "collect"
            /\ fut' = [i \in DOMAIN repos' |-> PendingFuture]
            /\ queue' = [i \in DOMAIN repos' |-> i]
    /\ UNCHANGED <<walkvars, purevars, script, lines, wk, dirs, used, results, yielded, report>>

\* The loop body with results = [result] in place of results.append(result).
loop_body_replacing(s, res, f) ==
    IF f.state = "raised"
    THEN [results |-> res, raised |-> s # "yearly"]
    ELSE [results |-> IF f.result # None THEN <<TheValue(f.result)>> ELSE res,
          raised |-> FALSE]

\* The body of the as_completed loop on a finished future f: the new results
\* list and whether the exception of the future leaves main.
loop_body(s, res, f) ==
    IF f.state = "raised"
    THEN [results |-> res, raised |-> s # "yearly"]
    ELSE [results |-> IF f.result # None THEN Append(res, TheValue(f.result)) ELSE res,
          raised |-> FALSE]

\* as_completed hands main a finished future.
collect(i) ==
    /\ mainpc = "collect"
    /\ i \in DOMAIN fut \ yielded
    /\ fut[i].state \in {"done", "raised"}
    /\ LET b == loop_body(script, results, fut[i])
       IN  /\ results' = b.results
           /\ mainpc' = IF b.raised THEN "unwind" ELSE "collect"
    /\ yielded' = yielded \cup {i}
    /\ UNCHANGED <<walkvars, purevars, script, lines, repos, queue, fut, wk, dirs, used, report>>

\* The report written without waiting for the loop and the with block.
write_report_early ==
    /\ mainpc = "collect"
    /\ report' = IF script = "yearly" /\ results = <<>> THEN None ELSE Some(results)
    /\ mainpc' = "done"
    /\ UNCHANGED <<walkvars, purevars, script, lines, repos, queue, fut, wk, dirs, used, results, yielded>>

\* The with block ends after the loop and the report is written: yearly.py
\* writes only a non-empty list.
write_report ==
    /\ mainpc = "collect"
    /\ yielded = DOMAIN fut
    /\ report' = IF script = "yearly" /\ results = <<>> THEN None ELSE Some(results)
    /\ mainpc' = "done"
    /\ UNCHANGED <<walkvars, purevars, script, lines, repos, queue, fut, wk, dirs, used, results, yielded>>

\* An exception left the loop: the with block still waits for every submitted
\* call, then main ends with the exception and writes nothing.
main_unwind ==
    /\ mainpc = "unwind"
    /\ \A i \in DOMAIN fut : fut[i].state \in {"done", "raised"}
    /\ mainpc' = "crashed"
    /\ UNCHANGED <<walkvars, purevars, script, lines, repos, queue, fut, wk, dirs, used, results, yielded, report>>

BatchInit ==
    /\ script \in {"yearly", "updated"}
    /\ lines \in UNION {[1..n -> LineSet] : n \in 0..MaxLines}
    /\ mainpc = "start"
    /\ repos = <<>>
    /\ queue = <<>>
    /\ fut = <<>>
    /\ wk = [w \in 1..updated_max_workers |-> IdleLocals]
    /\ dirs = [path \in TempDirs |-> None]
    /\ used = {}
    /\ results = <<>>
    /\ yielded = {}
    /\ report = None

\* ------------------------------------- the walk of get_contributor_metrics

Cursors == {"c1", "c2"}

\* The commits a history can hold: recent, within 90 days, old, without a
\* resolvable login, with a committedDate that does not parse.
CommitSet ==
    { Commit(Some("u1"), 1, 2026, 5, 1, TRUE),
      Commit(Some("u2"), 60, 2026, 2, 2, TRUE),
      Commit(Some("u2"), 400, 2025, 2, 2, TRUE),
      Commit(None, 1, 2026, 1, 1, TRUE),
      Commit(Some("u1"), 1, 2026, 5, 1, FALSE) }

\* pageInfo: more pages with a cursor, no more pages, hasNextPage left out.
PageInfos ==
    {[hasNextPage |-> TRUE, endCursor |-> Some(c)] : c \in Cursors}
        \cup {[hasNextPage |-> FALSE, endCursor |-> None], EmptyDict}

\* The pages a server can still deliver when it has n commits left.
Pages(n) ==
    {HistoryPage(nodes, pageInfo) :
        nodes \in UNION {[1..k -> CommitSet] : k \in 0..Min(n, MaxNodes)},
        pageInfo \in PageInfos}

\* The answers to one commit-history request.
HistoryAnswers(n) ==
    {Transport, Errors, Data(EmptyDict), Data([repository |-> None]),
     Data([repository |-> Some([defaultBranchRef |-> None])]),
     Data([repository |-> Some([defaultBranchRef |-> Some([target |-> None])])])}
        \cup {Data(page) : page \in Pages(n)}

\* Whether an answer carries a history page.
IsPage(resp) ==
    /\ resp.kind = "data"
    /\ "repository" \in DOMAIN resp.data
    /\ resp.data.repository # None
    /\ TheValue(resp.data.repository).defaultBranchRef # None
    /\ TheValue(TheValue(resp.data.repository).defaultBranchRef).target # None

\* The commit nodes of an answer, none when it is no page.
NodesOf(resp) ==
    IF IsPage(resp)
    THEN TheValue(TheValue(TheValue(resp.data.repository).defaultBranchRef).target).history.nodes
    ELSE <<>>

\* What the pageInfo of an answer says of hasNextPage; false when the answer
\* is no page or leaves the field out (page_info.get('hasNextPage')).
HasNextPage(resp) ==
    /\ IsPage(resp)
    /\ LET history == TheValue(TheValue(TheValue(resp.data.repository).defaultBranchRef).target).history
       IN  Get(Get(history, "pageInfo", EmptyDict), "hasNextPage", FALSE)

\* What one run_query call does on the wire, in order: time.sleep at line
\* 145, then requests.post at line 148.
run_query_timeline == <<"sleep", "post">>

\* How an iteration on resp ends: the request failed, the answer held no
\* history, a commit raised, the page was aggregated to its end.
Ending(st, resp) ==
    IF resp.kind # "data" THEN "fetch_failed"
    ELSE IF ~IsPage(resp) THEN "no_history"
    ELSE IF process_commits(st, NodesOf(resp)).raised THEN "commit_raised"
    ELSE "page_done"

WalkInit ==
    /\ walkst = walk_init
    /\ requests = 0
    /\ delivered = 0
    /\ last = "none"
    /\ summary = None
    /\ wire = [timeline |-> <<>>, hasNextPage |-> FALSE]

\* One iteration of the while loop: a request and the handling of its answer.
walk_iteration ==
    /\ summary = None
    /\ in_loop(walkst)
    /\ \E resp \in HistoryAnswers(MaxCommits - delivered) :
           /\ walkst' = loop_iteration(walkst, resp)
           /\ delivered' = delivered + Len(NodesOf(resp))
           /\ last' = Ending(walkst, resp)
           /\ wire' = [timeline |-> wire.timeline \o run_query_timeline,
                        hasNextPage |-> HasNextPage(resp)]
    /\ requests' = requests + 1
    /\ UNCHANGED <<summary, batchvars, purevars>>

\* The loop is left and lines 338-357 build the returned dict.
walk_return ==
    /\ summary = None
    /\ ~in_loop(walkst)
    /\ summary' = Some(contributor_summary(walkst))
    /\ UNCHANGED <<walkst, requests, delivered, last, wire, batchvars, purevars>>

\* --------------------------------------------------------- specifications

\* A batch run of yearly.py or updated-script.py.
\* ------------------------------------------------- one call of calculate_loc

MaxFiles == 2

\* Relative paths of regular files in a clone.
PathSet ==
    { <<"m", "a", "i", "n", ".", "p", "y">>,
      <<"_", "_", "i", "n", "i", "t", "_", "_", ".", "p", "y">>,
      <<"M", "a", "k", "e", "f", "i", "l", "e">>,
      <<"d", "i", "s", "t", "/", "a", ".", "p", "y">>,
      <<"d", "i", "s", "t", "a", "n", "c", "e", ".", "p", "y">>,
      <<".", "g", "i", "t", "h", "u", "b", "/", "c", ".", "y", "m", "l">>,
      <<"L", "I", "C", "E", "N", "S", "E">> }

\* What a file holds, as lines, and whether open() succeeds on it: no line,
\* blank lines only, lines with blanks between and around, a line of one
\* byte that is no UTF-8, the thirteen lines of main.py, and a file that
\* cannot be opened.
ContentSet ==
    { [text |-> <<>>, readable |-> TRUE],
      [text |-> << <<" ">>, <<>> >>, readable |-> TRUE],
      [text |-> << <<" ", "x", " ">>, <<" ">>, <<"x">> >>, readable |-> TRUE],
      [text |-> << <<Undecodable>> >>, readable |-> TRUE],
      [text |-> [i \in 1..13 |-> IF i = 7 THEN <<" ">> ELSE <<"x">>], readable |-> TRUE],
      [text |-> << <<"x">> >>, readable |-> FALSE] }

\* The trees of at most MaxFiles regular files: a path names one file.
Trees ==
    UNION { UNION { { { [relative_path |-> p, text |-> c[p].text, readable |-> c[p].readable]
                          : p \in ps }
                      : c \in [ps -> ContentSet] }
                    : ps \in {q \in SUBSET PathSet : Cardinality(q) = n} }
            : n \in 0..MaxFiles }

\* No call of calculate_loc.
ScanIdle ==
    [pc |-> "idle", tree |-> {}, todo |-> {}, acc |-> loc_init, run |-> 0, first |-> None]

\* calculate_loc(repo_path) is entered on a tree.
ScanInit ==
    \E tree \in Trees :
        scan = [pc |-> "loop", tree |-> tree, todo |-> tree, acc |-> loc_init,
                run |-> 1, first |-> None]

\* rglob delivers one more file and the loop body runs on it.
loc_visit ==
    /\ scan.pc = "loop"
    /\ \E file \in scan.todo :
           scan' = [scan EXCEPT !.acc = loc_file(script, TempDir(1), scan.acc, file),
                                !.todo = scan.todo \ {file}]
    /\ UNCHANGED <<batchvars, walkvars, review, org>>

\* rglob is exhausted: return total_lines, file_count, file_stats.
loc_return ==
    /\ scan.pc = "loop"
    /\ scan.todo = {}
    /\ scan' = [scan EXCEPT !.pc = "returned",
                            !.first = IF scan.run = 1 THEN Some(scan.acc) ELSE @]
    /\ UNCHANGED <<batchvars, walkvars, review, org>>

\* calculate_loc is called once more on the tree as it is.
loc_again ==
    /\ scan.pc = "returned"
    /\ scan.run = 1
    /\ scan' = [scan EXCEPT !.pc = "loop", !.run = 2, !.todo = scan.tree, !.acc = loc_init]
    /\ UNCHANGED <<batchvars, walkvars, review, org>>

\* ------------------------------------- one call of calculate_review_metrics

MaxPRs == 2

MaxReviews == 3

\* The most review nodes the server returns for one PR: reviews(first: 50)
\* in the query, bounded here.
MaxReviewNodes == 2

ReviewStates == {"APPROVED", "CHANGES_REQUESTED", "COMMENTED"}

\* The reviews connection of one PR: totalCount counts every review, nodes
\* holds the states of the first ones up to the page size.
ReviewConnections ==
    UNION { { [totalCount |-> n, nodes |-> nodes]
                : nodes \in [1..Min(n, MaxReviewNodes) -> ReviewStates] }
            : n \in 0..MaxReviews }

\* The recentPRsForReviews samples of at most MaxPRs closed or merged PRs.
ReviewSamples == UNION {[1..n -> ReviewConnections] : n \in 0..MaxPRs}

\* No call of calculate_review_metrics.
ReviewIdle == [pc |-> "idle", data |-> [recentPRsForReviews |-> <<>>], result |-> None]

\* calculate_review_metrics(data) is entered on a sample.
ReviewInit ==
    \E sample \in ReviewSamples :
        review = [pc |-> "called", data |-> [recentPRsForReviews |-> sample],
                  result |-> None]

\* calculate_review_metrics runs and returns or raises.
review_return ==
    /\ review.pc = "called"
    /\ review' = [review EXCEPT !.pc = "returned",
                                !.result = Some(calculate_review_metrics(review.data))]
    /\ UNCHANGED <<batchvars, walkvars, scan, org>>

\* ------------------------------ get_organization_repos_bulk of graphql.py

\* The locals of get_organization_repos_bulk before its loop, lines 211-218.
\* variables_after is the "after" entry of the variables dict, None while the
\* dict has no such key; all_repos is the length of the list; requests and
\* sent are the number of execute_query calls and the "after" the latest one
\* carried; endCursor is the endCursor of the latest page.
org_init ==
    [pc |-> "loop", variables_after |-> None, all_repos |-> 0,
     has_next_page |-> TRUE, after |-> None,
     requests |-> 0, sent |-> None, endCursor |-> None]

\* No call of get_organization_repos_bulk.
OrgIdle == [org_init EXCEPT !.pc = "idle"]

\* The pages of the repository connection: nodes, hasNextPage, endCursor (a
\* cursor or null).
OrgPages ==
    {[nodes |-> n, pageInfo |-> [hasNextPage |-> h, endCursor |-> c]] :
        n \in 0..1, h \in BOOLEAN, c \in {None} \cup {Some(k) : k \in Cursors}}

\* What execute_query can come back with: requests.post or response.json()
\* raises, a body with errors, a body whose organization is null, a page.
OrgAnswers ==
    {[kind |-> "transport"], [kind |-> "errors"], [kind |-> "null_organization"]}
        \cup {[kind |-> "page", repositories |-> page] : page \in OrgPages}

\* if after: variables["after"] = after
set_after(st) ==
    IF st.after # None THEN [st EXCEPT !.variables_after = st.after] ELSE st

\* One pass of the while loop, lines 220-234, on the answer to its request.
org_loop_iteration(st, resp) ==
    LET asked == set_after(st)
        sending == [asked EXCEPT !.requests = @ + 1, !.sent = asked.variables_after]
    IN  IF resp.kind = "transport" THEN [sending EXCEPT !.pc = "raised"]
        ELSE IF resp.kind = "errors" THEN [sending EXCEPT !.pc = "returned"]
        ELSE IF resp.kind = "null_organization" THEN [sending EXCEPT !.pc = "raised"]
        ELSE LET page == resp.repositories
             IN  [sending EXCEPT
                     !.all_repos = @ + page.nodes,
                     !.has_next_page = page.pageInfo.hasNextPage,
                     !.after = page.pageInfo.endCursor,
                     !.endCursor = page.pageInfo.endCursor]

\* get_organization_repos_bulk(org_name) is entered.
OrgInit == org = org_init

\* while has_next_page: one more pass.
org_iteration ==
    /\ org.pc = "loop"
    /\ org.has_next_page
    /\ org.requests < MaxOrgRequests
    /\ \E resp \in OrgAnswers : org' = org_loop_iteration(org, resp)
    /\ UNCHANGED <<batchvars, walkvars, scan, review>>

\* The loop condition is false: return all_repos.
org_return ==
    /\ org.pc = "loop"
    /\ ~org.has_next_page
    /\ org' = [org EXCEPT !.pc = "returned"]
    /\ UNCHANGED <<batchvars, walkvars, scan, review>>

PureIdle == scan = ScanIdle /\ review = ReviewIdle /\ org = OrgIdle

Init == BatchInit /\ WalkInit /\ PureIdle

Next ==
    \/ main_submit
    \/ \E w \in 1..updated_max_workers :
           \/ process_repo_begin(w)
           \/ fetch_pr_metrics(w)
           \/ fetch_contributor_metrics(w)
           \/ fetch_repo_stats(w)
           \/ fetch_repo_info(w)
           \/ clone_repository(w)
           \/ scan_and_merge(w)
           \/ process_repo_finally(w)
    \/ \E i \in 1..(MaxLines + 1) : collect(i)
    \/ write_report
    \/ main_unwind

Spec == Init /\ [][Next]_vars

\* One call of get_contributor_metrics against every server.
InitWalk ==
    /\ WalkInit
    /\ PureIdle
    /\ script = "yearly"
    /\ lines = <<>>
    /\ mainpc = "start"
    /\ repos = <<>>
    /\ queue = <<>>
    /\ fut = <<>>
    /\ wk = [w \in 1..updated_max_workers |-> IdleLocals]
    /\ dirs = [path \in TempDirs |-> None]
    /\ used = {}
    /\ results = <<>>
    /\ yielded = {}
    /\ report = None

NextWalk ==
    \/ walk_iteration
    \/ walk_return

SpecWalk == InitWalk /\ [][NextWalk]_vars

\* No batch run.
BatchIdle ==
    /\ lines = <<>>
    /\ mainpc = "start"
    /\ repos = <<>>
    /\ queue = <<>>
    /\ fut = <<>>
    /\ wk = [w \in 1..updated_max_workers |-> IdleLocals]
    /\ dirs = [path \in TempDirs |-> None]
    /\ used = {}
    /\ results = <<>>
    /\ yielded = {}
    /\ report = None

\* Two calls of calculate_loc of either program on every tree, in every
\* order of delivery.
InitLoc ==
    /\ script \in {"yearly", "updated"}
    /\ BatchIdle
    /\ WalkInit
    /\ ScanInit
    /\ review = ReviewIdle
    /\ org = OrgIdle

NextLoc ==
    \/ loc_visit
    \/ loc_return
    \/ loc_again

SpecLoc == InitLoc /\ [][NextLoc]_vars

\* One call of calculate_review_metrics on every sample.
InitReview ==
    /\ script = "yearly"
    /\ BatchIdle
    /\ WalkInit
    /\ scan = ScanIdle
    /\ ReviewInit
    /\ org = OrgIdle

NextReview == review_return

SpecReview == InitReview /\ [][NextReview]_vars

\* A batch run of yearly.py on a list of one entry more than the pool has
\* threads, every entry naming a repository that does not exist: each call
\* ends at its first remote request.
InitPool ==
    /\ script = "yearly"
    /\ lines \in [1..(yearly_max_workers + 1) -> {<<"/", "w">>, <<"a", "/">>}]
    /\ mainpc = "start"
    /\ repos = <<>>
    /\ queue = <<>>
    /\ fut = <<>>
    /\ wk = [w \in 1..updated_max_workers |-> IdleLocals]
    /\ dirs = [path \in TempDirs |-> None]
    /\ used = {}
    /\ results = <<>>
    /\ yielded = {}
    /\ report = None
    /\ WalkInit
    /\ PureIdle

NextPool ==
    \/ main_submit
    \/ \E w \in 1..updated_max_workers :
           \/ process_repo_begin(w)
           \/ fetch_pr_metrics(w)
           \/ process_repo_finally(w)
    \/ \E i \in 1..(yearly_max_workers + 1) : collect(i)
    \/ write_report

SpecPool == InitPool /\ [][NextPool]_vars

\* One call of get_organization_repos_bulk against every server.
InitOrg ==
    /\ script = "yearly"
    /\ BatchIdle
    /\ WalkInit
    /\ scan = ScanIdle
    /\ review = ReviewIdle
    /\ OrgInit

NextOrg ==
    \/ org_iteration
    \/ org_return

SpecOrg == InitOrg /\ [][NextOrg]_vars

\* ------------------------------------------------------------------ claims

IsBlankLine(line) == \A j \in DOMAIN line : line[j] = " "

NonBlankCount == Cardinality({i \in DOMAIN lines : ~IsBlankLine(lines[i])})

\* A token that is no owner/name pair: not exactly one separator, or an empty
\* part.
Malformed(token) ==
    \/ Cardinality({j \in DOMAIN token : token[j] = "/"}) # 1
    \/ token[1] = "/"
    \/ token[Len(token)] = "/"

ErrorShaped(r) == DOMAIN r = {"repository", "error"}

SuccessFields(s) ==
    IF s = "yearly"
    THEN {"total_files", "total_lines", "total_commits", "yearly_commits",
          "total_contributors", "active_30_days", "active_90_days",
          "pr_total", "pr_open", "pr_closed", "pr_merged", "pr_draft",
          "reviews_per_pr", "approval_rate", "change_requests_rate"}
    ELSE {"total_files", "total_lines", "files"}

SuccessShaped(s, r) ==
    /\ "error" \notin DOMAIN r
    /\ "repository" \in DOMAIN r
    /\ SuccessFields(s) \subseteq DOMAIN r

Finished(i) == fut[i].state \in {"done", "raised"}

InResults(r) == \E k \in DOMAIN results : results[k] = r

\* C1: once main has gone through the whole batch, the results list holds as
\* many records as the repository list holds non-blank lines.
C1_OneRecordPerLine == mainpc = "done" => Len(results) = NonBlankCount

\* C2: a malformed token ends in an error-shaped result, and the call that
\* handles it never gets past the point before its first remote call.
C2_MalformedIsErrorWithoutCall ==
    /\ \A i \in DOMAIN fut :
           (Malformed(repos[i]) /\ Finished(i))
               => (fut[i].result # None /\ ErrorShaped(TheValue(fut[i].result)))
    /\ \A w \in Threads :
           (wk[w].pc # "idle" /\ Malformed(repos[wk[w].task])) => wk[w].pc \in {"pr", "info"}

\* C3: in yearly.py no call for a well-formed token ends in the error record
\* of a failed metric query (a transport failure or an errors field).
C3_MetricFailureIsFolded ==
    script = "yearly" =>
        \A i \in DOMAIN fut :
            (~Malformed(repos[i]) /\ fut[i].result # None)
                => ~(/\ ErrorShaped(TheValue(fut[i].result))
                     /\ TheValue(fut[i].result).error \in {MsgTransport, MsgGraphQL})

CloneFailed(w) == wk[w].cloned \in {"nonzero", "timeout"}

IsCloneError(r) == ErrorShaped(r) /\ r.error = MsgClone

\* C4: in yearly.py a call whose clone exited non-zero or timed out has no
\* workspace path and stands before its finally clause with the error record
\* of its own token, whose message contains "clone"; the scan stage is only
\* entered after a clone that succeeded; main does not crash, and when it is
\* through, every returned record, that one included, is in the results list
\* and nothing else is.
C4_CloneFailureIsErrorRecord ==
    script = "yearly" =>
        /\ \A w \in Threads :
               /\ CloneFailed(w) =>
                      /\ wk[w].pc = "finally"
                      /\ wk[w].ret =
                             Some([repository |-> repos[wk[w].task], error |-> MsgClone])
                      /\ Contains(TheValue(wk[w].ret).error, "clone")
               /\ wk[w].pc = "scan" => wk[w].cloned = "ok"
        /\ \A i \in DOMAIN fut :
               (fut[i].result # None /\ IsCloneError(TheValue(fut[i].result)))
                   => TheValue(fut[i].result).repository = repos[i]
        /\ mainpc # "crashed"
        /\ mainpc = "done" =>
               /\ \A i \in DOMAIN fut : fut[i].result # None => InResults(TheValue(fut[i].result))
               /\ Len(results) = Cardinality({i \in DOMAIN fut : fut[i].result # None})

\* C4 witness: a one-line batch of yearly.py is through and its results list
\* is the one clone-failure record of that line.
C4_Witness ==
    /\ script = "yearly"
    /\ mainpc = "done"
    /\ Len(lines) = 1
    /\ results = << [repository |-> lines[1], error |-> MsgClone] >>

\* C5: every record in the results list is error-shaped with none of the
\* success fields, or carries the success fields and no error key.
C5_ExactlyOneShape ==
    \A k \in DOMAIN results :
        \/ /\ "error" \in DOMAIN results[k]
           /\ DOMAIN results[k] \cap SuccessFields(script) = {}
        \/ SuccessShaped(script, results[k])

\* C5 witness: a results list with a record of each shape.
C5_Witness ==
    /\ Len(results) = 2
    /\ ErrorShaped(results[1])
    /\ SuccessShaped(script, results[2])

\* C6: main never ends with an exception, and a call that raised has an error
\* record for its repository in the results list once main has seen it.
C6_BatchNeverFails ==
    /\ mainpc # "crashed"
    /\ \A i \in yielded :
           fut[i].state = "raised"
               => \E k \in DOMAIN results :
                      ErrorShaped(results[k]) /\ results[k].repository = repos[i]

\* C7: a call of get_contributor_metrics sends at most max_pages
\* commit-history requests.
C7_PageCap == requests <= max_pages

\* C7 witness: a walk that sent max_pages requests and returned.
C7_Witness == requests = max_pages /\ summary # None

Tables(st) ==
    <<st.contributors, st.commit_counts_by_year, st.active_30_days, st.active_90_days>>

\* C8: an iteration whose request fails leaves the four tables as the earlier
\* pages made them and ends the loop, and the returned summary is read off
\* those tables.
C8_FetchFailureKeepsPages ==
    [][/\ (requests' = requests + 1 /\ last' = "fetch_failed")
            => (Tables(walkst') = Tables(walkst) /\ ~in_loop(walkst'))
       /\ (summary = None /\ summary' # None)
            => /\ TheValue(summary').total_contributors = Len(walkst.contributors)
               /\ TheValue(summary').active_30_days = Cardinality(walkst.active_30_days)
               /\ TheValue(summary').active_90_days = Cardinality(walkst.active_90_days)
               /\ TheValue(summary').yearly_commits = walkst.commit_counts_by_year
               /\ \A c \in DOMAIN TheValue(summary').contributors :
                      \E e \in DOMAIN walkst.contributors :
                          /\ walkst.contributors[e].username
                                 = TheValue(summary').contributors[c].username
                          /\ walkst.contributors[e].commits
                                 = TheValue(summary').contributors[c].commit_count
                          /\ walkst.contributors[e].additions
                                 = TheValue(summary').contributors[c].additions
                          /\ walkst.contributors[e].deletions
                                 = TheValue(summary').contributors[c].deletions]_vars

\* C8 witness: a walk whose request failed after a page with commits was
\* aggregated, and which returned a summary with those contributors.
C8_Witness ==
    /\ last = "fetch_failed"
    /\ walkst.pages_fetched >= 1
    /\ summary # None
    /\ TheValue(summary).total_contributors >= 1

\* C9: an iteration that ends with a raise while the commits of its page are
\* processed leaves the four tables as they were before that page.
C9_OnlyWholePagesCount ==
    [][(requests' = requests + 1 /\ last' = "commit_raised")
           => Tables(walkst') = Tables(walkst)]_vars

\* C10: when the finally clause has run, process_repo returns the result it
\* had decided on and does not raise, and the workspace directory is gone
\* unless its removal failed and left it as it was.
C10_CleanupOnEveryExit ==
    [][\A w \in 1..updated_max_workers :
           (wk[w].pc = "finally" /\ wk'[w].pc = "idle")
               => /\ fut'[wk[w].task].state = "done"
                  /\ fut'[wk[w].task].result = wk[w].ret
                  /\ dirs'[TempDir(w)] = None \/ dirs'[TempDir(w)] = dirs[TempDir(w)]]_vars

Running(w) == w \in Threads /\ wk[w].pc # "idle"

\* C11: two process_repo calls that run at the same time on different pool
\* threads have different workspace paths, whatever their repositories, so
\* the tree a call has cloned is still at its path when the call scans it.
C11_DistinctWorkspacePaths ==
    /\ \A v \in Threads, w \in Threads :
           (v # w /\ Running(v) /\ Running(w)) => TempDir(v) # TempDir(w)
    /\ \A w \in Threads :
           wk[w].pc = "scan" => dirs[TempDir(w)] \in {Some(ws) : ws \in Workspaces}

\* C11 witness: two calls for the same repository token are both between
\* their clone and their scan.
C11_Witness ==
    \E v \in Threads, w \in Threads :
        /\ v # w
        /\ wk[v].pc = "scan" /\ wk[w].pc = "scan"
        /\ repos[wk[v].task] = repos[wk[w].task]

RECURSIVE SumValues(_)
SumValues(d) ==
    IF DOMAIN d = {} THEN 0
    ELSE LET k == CHOOSE x \in DOMAIN d : TRUE
         IN  d[k] + SumValues([x \in DOMAIN d \ {k} |-> d[x]])

\* C12: at every point of the loop of calculate_loc and at its return,
\* total_lines is the sum of the per-file counts, file_count is the number of
\* per-file entries, and every per-file count is at least 1.
C12_TotalsMatchPerFile ==
    /\ scan.acc.total_lines = SumValues(scan.acc.file_stats)
    /\ scan.acc.file_count = Cardinality(DOMAIN scan.acc.file_stats)
    /\ \A p \in DOMAIN scan.acc.file_stats : scan.acc.file_stats[p] >= 1

\* C12 witness: inside the loop, after a file that was recorded and a
\* countable file without a non-blank line that was not.
C12_Witness ==
    /\ scan.pc = "loop"
    /\ scan.acc.file_count >= 1
    /\ \E f \in scan.tree \ scan.todo :
           /\ is_code_file(script, TempDir(1) \o <<"/">> \o f.relative_path)
           /\ f.relative_path \notin DOMAIN scan.acc.file_stats

\* The lines of a file whose trimmed content is not empty, a byte that does
\* not decode being replaced by a character and so being content.
NonBlankLines(file) == Cardinality({i \in DOMAIN file.text : Strip(file.text[i]) # <<>>})

Countable(file) == is_code_file(script, TempDir(1) \o <<"/">> \o file.relative_path)

\* C13: on a tree whose files can all be opened, what calculate_loc returns
\* records exactly the countable files with at least one line whose trimmed
\* content is not empty, each with the number of such lines.
C13_ExactlyTheNonBlankFiles ==
    (scan.pc = "returned" /\ \A f \in scan.tree : f.readable) =>
        LET recorded == {f \in scan.tree : Countable(f) /\ NonBlankLines(f) >= 1}
        IN  /\ DOMAIN scan.acc.file_stats = {f.relative_path : f \in recorded}
            /\ \A f \in recorded : scan.acc.file_stats[f.relative_path] = NonBlankLines(f)

\* C14: a second call of calculate_loc on the unchanged tree returns the
\* total_lines, file_count and file_stats of the first, in whatever order
\* rglob delivers the files to either call.
C14_ScanIsRepeatable ==
    (scan.run = 2 /\ scan.pc = "returned") => Some(scan.acc) = scan.first

\* C14 witness: the second call has returned on a tree of which it recorded
\* two files with different counts.
C14_Witness ==
    /\ scan.run = 2
    /\ scan.pc = "returned"
    /\ \E p \in DOMAIN scan.acc.file_stats, q \in DOMAIN scan.acc.file_stats :
           scan.acc.file_stats[p] # scan.acc.file_stats[q]

ReviewResult == TheValue(review.result)

ReviewedPRs == {i \in DOMAIN review.data.recentPRsForReviews :
                   review.data.recentPRsForReviews[i].totalCount > 0}

\* C15: calculate_review_metrics returns and does not raise; reviews_per_pr
\* is 0 when no PR of the sample has a review, the two rates are 0 when the
\* review counts add up to 0, and all three are 0 on the empty sample.
C15_NoDivisionFault ==
    review.pc = "returned" =>
        /\ ~ReviewResult.raised
        /\ ReviewedPRs = {} => TheValue(ReviewResult.val).reviews_per_pr = 0
        /\ review_totals(review.data.recentPRsForReviews).total_reviews = 0 =>
               /\ TheValue(ReviewResult.val).approval_rate = 0
               /\ TheValue(ReviewResult.val).change_requests_rate = 0
        /\ review.data.recentPRsForReviews = <<>> =>
               TheValue(ReviewResult.val) =
                   [reviews_per_pr |-> 0, approval_rate |-> 0, change_requests_rate |-> 0]

\* C15 witness: the call has returned on a sample of PRs none of which has a
\* review.
C15_Witness ==
    /\ review.pc = "returned"
    /\ review.data.recentPRsForReviews # <<>>
    /\ ReviewedPRs = {}
    /\ ~ReviewResult.raised

\* C16: the two rates lie between 0 and 1 (100 hundredths), reviews_per_pr is
\* not negative, and the approvals and change requests counted from the
\* returned nodes do not exceed the sum of the totalCount values.
C16_RatesInRange ==
    review.pc = "returned" =>
        LET t == review_totals(review.data.recentPRsForReviews)
        IN  /\ ~ReviewResult.raised
            /\ TheValue(ReviewResult.val).approval_rate \in 0..100
            /\ TheValue(ReviewResult.val).change_requests_rate \in 0..100
            /\ TheValue(ReviewResult.val).reviews_per_pr >= 0
            /\ t.total_approvals <= t.total_reviews
            /\ t.total_change_requests <= t.total_reviews

\* C16 witness: the call has returned an approval rate of 1 and more than one
\* review per PR.
C16_Witness ==
    /\ review.pc = "returned"
    /\ TheValue(ReviewResult.val).approval_rate = 100
    /\ TheValue(ReviewResult.val).reviews_per_pr > 100

\* The summary answer named no default branch, or a branch without a target.
NullBranch(repo_stats) ==
    \E alias \in {"totalCommits", "yearlyCommits"} \cap DOMAIN repo_stats :
        \/ repo_stats[alias] = None
        \/ /\ "target" \in DOMAIN TheValue(repo_stats[alias])
           /\ TheValue(repo_stats[alias]).target = None

\* C17: a call of yearly.py whose summary query answered with a null default
\* branch or target, and whose clone and scan went through, stands before its
\* finally clause with a success record of total_commits 0 and
\* yearly_commits 0.
C17_NullBranchIsZeroCommits ==
    script = "yearly" =>
        \A w \in Threads :
            (wk[w].pc = "finally" /\ wk[w].cloned = "ok" /\ NullBranch(wk[w].repo_stats))
                => /\ wk[w].ret # None
                   /\ SuccessShaped(script, TheValue(wk[w].ret))
                   /\ TheValue(wk[w].ret).total_commits = 0
                   /\ TheValue(wk[w].ret).yearly_commits = 0

StageOrder ==
    { <<"idle", "pr">>, <<"pr", "contrib">>, <<"contrib", "stats">>, <<"stats", "clone">>,
      <<"clone", "scan">>, <<"scan", "finally">>,
      <<"pr", "finally">>, <<"stats", "finally">>, <<"clone", "finally">>,
      <<"finally", "idle">> }

\* C18: a call of yearly.py moves from stage to stage only in the order PR
\* metrics, contributor metrics, summary, clone, scan and merge, or from a
\* stage that failed to the finally clause; so the clone starts only when the
\* summary fetch has ended, and the scan only after a clone that succeeded.
C18_StagesInOrder ==
    [][script = "yearly" =>
           \A w \in 1..updated_max_workers :
               wk'[w].pc # wk[w].pc =>
                   /\ <<wk[w].pc, wk'[w].pc>> \in StageOrder
                   /\ wk'[w].pc = "scan" => wk'[w].cloned = "ok"
                   /\ wk'[w].pc \notin {"pr", "idle"} => wk'[w].task = wk[w].task]_vars

\* C18 witness: a call of yearly.py has gone through every stage and stands
\* before its finally clause with a success record.
C18_Witness ==
    /\ script = "yearly"
    /\ \E w \in Threads :
           /\ wk[w].pc = "finally"
           /\ wk[w].cloned = "ok"
           /\ wk[w].ret # None
           /\ SuccessShaped(script, TheValue(wk[w].ret))
           /\ wk[w].pr_metrics # EmptyDict
           /\ wk[w].contributor_metrics # EmptyDict

\* C19: when the report has been written, every submitted call has finished:
\* none is queued and none runs on a pool thread.
C19_ReportAfterJoin ==
    mainpc = "done" =>
        /\ queue = <<>>
        /\ \A i \in DOMAIN fut : Finished(i)
        /\ \A w \in 1..updated_max_workers : wk[w].pc = "idle"
        /\ report # None => TheValue(report) = results

\* C19 witness: the report of a batch of two entries has been written.
C19_Witness ==
    /\ mainpc = "done"
    /\ report # None
    /\ Len(repos) = 2
    /\ Len(TheValue(report)) = 2

Returned == {i \in DOMAIN fut : fut[i].result # None}

ExclusionSet ==
    { <<".", "g", "i", "t">>,
      <<"_", "_", "p", "y", "c", "a", "c", "h", "e", "_", "_">>,
      <<"n", "o", "d", "e", "_", "m", "o", "d", "u", "l", "e", "s">>,
      <<".", "v", "e", "n", "v">>,
      <<"d", "i", "s", "t">>,
      <<"b", "u", "i", "l", "d">> }

ComponentExcluded(path) == \E i \in DOMAIN Split(path) : Split(path)[i] \in ExclusionSet

AllowListed(path) ==
    \/ Lower(PathSuffix(path)) \in code_extensions
    \/ Lower(PathName(path)) \in code_names

\* C21: for every file the loop of calculate_loc of yearly.py has visited,
\* is_code_file is true exactly when no component of the path is an entry of
\* the exclusion set and the extension or name is on the allow-list.
C21_ExcludedByComponent ==
    script = "yearly" =>
        \A f \in scan.tree \ scan.todo :
            LET path == TempDir(1) \o <<"/">> \o f.relative_path
            IN  is_code_file(script, path) <=> (~ComponentExcluded(path) /\ AllowListed(path))

\* The place of a login in the contributor table, which keeps the order in
\* which the logins first occurred among the delivered commits.
FirstSeen(table, username) == IndexOf(table, username)

\* A table of eleven logins, the later the login the more commits.
ElevenLogins ==
    [i \in 1..(top_contributors + 1) |->
        [username |-> <<"u", i>>, commits |-> i, additions |-> 0, deletions |-> 0]]

\* C22: the contributor list of a returned summary is in descending order of
\* commit count, logins of equal count stand in the order of their first
\* commit, the list is the first ten entries at most (also of a table of
\* eleven logins), and total_contributors is the number of distinct logins of
\* the table.
C22_TopContributors ==
    /\ summary # None =>
           LET s == TheValue(summary)
               list == s.contributors
               table == walkst.contributors
           IN  /\ Len(list) = Min(top_contributors, Len(table))
               /\ \A i \in DOMAIN list :
                      \E k \in DOMAIN table :
                          /\ table[k].username = list[i].username
                          /\ table[k].commits = list[i].commit_count
               /\ \A i, j \in DOMAIN list :
                      i < j =>
                          \/ list[i].commit_count > list[j].commit_count
                          \/ /\ list[i].commit_count = list[j].commit_count
                             /\ FirstSeen(table, list[i].username)
                                    < FirstSeen(table, list[j].username)
               /\ s.total_contributors
                      = Cardinality({table[k].username : k \in DOMAIN table})
    /\ LET s == contributor_summary([walk_init EXCEPT !.contributors = ElevenLogins])
       IN  /\ Len(s.contributors) = top_contributors
           /\ s.total_contributors = top_contributors + 1
           /\ \A i \in DOMAIN s.contributors :
                  s.contributors[i].commit_count = top_contributors + 2 - i

\* A summary was returned whose list holds two logins of the same count.
C22_Witness ==
    /\ summary # None
    /\ Len(TheValue(summary).contributors) = 2
    /\ TheValue(summary).contributors[1].commit_count
           = TheValue(summary).contributors[2].commit_count

\* The places of the requests in what run_query did on the wire.
Posts == {i \in DOMAIN wire.timeline : wire.timeline[i] = "post"}

\* C23: in a commit-history walk the first request goes out without a wait
\* before it, and between two consecutive requests the delay is slept.
C23_DelayOnlyBetweenRequests ==
    /\ wire.timeline # <<>> => wire.timeline[1] = "post"
    /\ \A i, j \in Posts :
           i < j => \E k \in (i + 1)..(j - 1) : wire.timeline[k] = "sleep"

\* The latest answer of the walk was terminal: the request failed, or the
\* page said hasNextPage false or left it out.
TerminalAnswer ==
    /\ requests >= 1
    /\ \/ last = "fetch_failed"
       \/ last = "page_done" /\ ~wire.hasNextPage

\* C24: after a terminal answer (a failed request, or a page that says
\* hasNextPage false or leaves it out) the commit-history walk sends no
\* further request.
C24_NoRequestAfterTerminal ==
    [][TerminalAnswer => requests' = requests]_vars

\* A walk returned after its second request had failed, with no third
\* request sent.
C24_Witness ==
    /\ summary # None
    /\ requests = 2
    /\ TerminalAnswer
    /\ last = "fetch_failed"

\* C25: in the organization walk the first request carries no cursor and
\* every later request carries the endCursor of the page just before it.
C25_CursorOfPreviousPage ==
    [][org'.requests = org.requests + 1 =>
          org'.sent = IF org.requests = 0 THEN None ELSE org.endCursor]_vars

\* C27: the organization walk sends no more requests than max_pages, the
\* ceiling of the commit-history walk, whatever the server says of hasNextPage.
C27_OrgWalkHasCeiling == org.requests <= max_pages

\* The pool threads that run a call, and the calls that run.
Busy == {w \in 1..updated_max_workers : wk[w].pc # "idle"}

RunningCalls == {i \in DOMAIN fut : fut[i].state = "running"}

\* C26: in a run of yearly.py at most three calls of process_repo run at any
\* moment, every running call is held by exactly one pool thread from its
\* start to the end of its finally clause, and a thread holds one call at a
\* time: it takes the next entry only after its call has returned.
C26_PoolWidthAndRunToCompletion ==
    /\ Cardinality(Busy) <= yearly_max_workers
    /\ Cardinality(RunningCalls) <= yearly_max_workers
    /\ \A i \in RunningCalls :
           Cardinality({w \in Busy : wk[w].task = i}) = 1
    /\ \A w \in Busy : wk[w].task \in RunningCalls
    /\ \A w \in 1..updated_max_workers \ Busy : wk[w] = IdleLocals

\* Three calls run, the fourth entry waits in the queue, and one of the
\* three threads has already reached its finally clause.
C26_Witness ==
    /\ Cardinality(RunningCalls) = yearly_max_workers
    /\ queue # <<>>
    /\ \E w \in Busy : wk[w].pc = "finally"

\* A record that reports a removal of the workspace directory that failed.
\* The working directory holds no workspace when the batch starts, so what
\* clone_repo finds at the path of a thread was left there by an earlier call
\* of that thread.
IsRmtreeError(r) == ErrorShaped(r) /\ r.error = MsgRmtree

\* C28: in yearly.py the record of a call does not come from what an earlier
\* call of the same pool thread left at the workspace path: no call ends in
\* the error record of a removal of that leftover directory.
C28_LeftoverNeverChangesResult ==
    script = "yearly" =>
        \A i \in DOMAIN fut :
            fut[i].result # None => ~IsRmtreeError(TheValue(fut[i].result))

RECURSIVE SumCommitCounts(_)
SumCommitCounts(list) ==
    IF list = <<>> THEN 0 ELSE Head(list).commit_count + SumCommitCounts(Tail(list))

\* C29: in a returned summary the values of the yearly histogram add up to
\* the commit counts of the contributors, also when the walk ended with a
\* failure in the middle of a page.
C29_HistogramMatchesTable ==
    summary # None =>
        SumValues(TheValue(summary).yearly_commits)
            = SumCommitCounts(TheValue(summary).contributors)

\* The logins of the contributor table.
TableKeys == {walkst.contributors[k].username : k \in DOMAIN walkst.contributors}

\* C30: at every point of the walk the logins active within 30 days are
\* among those active within 90 days, which are among the keys of the
\* contributor table; and in a returned summary
\* active_30_days <= active_90_days <= total_contributors.
C30_ActiveSetsNested ==
    /\ walkst.active_30_days \subseteq walkst.active_90_days
    /\ walkst.active_90_days \subseteq TableKeys
    /\ summary # None =>
           /\ TheValue(summary).active_30_days <= TheValue(summary).active_90_days
           /\ TheValue(summary).active_90_days <= TheValue(summary).total_contributors

\* A summary was returned for a walk that saw one login within 30 days and
\* another within 90 days only.
C30_Witness ==
    /\ summary # None
    /\ walkst.active_30_days = {"u1"}
    /\ walkst.active_90_days = {"u1", "u2"}
    /\ TheValue(summary).active_30_days = 1
    /\ TheValue(summary).active_90_days = 2

====
